---- MODULE Spec2Model ----
(***************************************************************************)
(* Model of ouracli's terminal chart renderer, src/ouracli/charts_ascii.py *)
(*                                                                         *)
(* The renderer is a pair of pure entry points,                            *)
(*   create_heartrate_bar_chart_ascii(heartrate_data, width, height)       *)
(*   create_ascii_bar_chart(met_items, width, height)                      *)
(* that both end in _create_ascii_bar_chart_from_buckets.  A behaviour of  *)
(* the model is one call: Init draws the arguments, the action of the      *)
(* called entry point computes the returned string.                        *)
(*                                                                         *)
(* Numbers.  Python computes on floats; the model computes on exact        *)
(* rationals [n, d] in lowest terms (d > 0).  d = 0 stands for None.       *)
(* Strings.  A string is a sequence of Unicode codepoints.                 *)
(***************************************************************************)
EXTENDS Integers, Sequences, FiniteSets

VARIABLES
    pc,              \* "ready" before the call, "done" after it returned or raised
    entry,           \* "heartrate" | "met": the entry point called
    heartrate_data,  \* argument: list of readings {timestamp, bpm}
    met_items,       \* argument: list of MET values
    width,           \* argument
    height,          \* argument
    rendered,        \* TRUE once _create_ascii_bar_chart_from_buckets has run
    buckets,         \* the bucket list handed to the renderer
    min_val,         \* the renderer's resolved domain
    max_val,
    ret              \* [error, text]: the exception raised ("none") and the string returned

vars == <<pc, entry, heartrate_data, met_items, width, height,
          rendered, buckets, min_val, max_val, ret>>

----------------------------------------------------------------------------
(* Bounds of the input sets *)

MaxSamples == 3      \* longest heartrate_data list
MaxItems == 4        \* longest exhaustively enumerated met_items list
MaxMet == 3          \* MET values are 0 .. MaxMet
ShortLen == 2        \* longest met_items list tried under every width and height
MaxHeight == 3       \* heights are -1 .. MaxHeight, and 10 and 11
NumPatterns == 2     \* generated day-long met_items lists per length

----------------------------------------------------------------------------
(* Rationals *)

RECURSIVE GCD(_, _)
GCD(a, b) == IF b = 0 THEN a ELSE GCD(b, a % b)

Abs(x) == IF x < 0 THEN -x ELSE x

Rat(n, d) ==
    IF n = 0 THEN [n |-> 0, d |-> 1]
    ELSE LET g == GCD(Abs(n), d)
             m == Abs(n) \div g
         IN  [n |-> IF n < 0 THEN -m ELSE m, d |-> d \div g]

R(i) == [n |-> i, d |-> 1]
None == [n |-> 0, d |-> 0]
IsNone(x) == x.d = 0

RAdd(a, b) == Rat(a.n * b.d + b.n * a.d, a.d * b.d)
RSub(a, b) == Rat(a.n * b.d - b.n * a.d, a.d * b.d)
RMul(a, b) == Rat(a.n * b.n, a.d * b.d)
\* a / b for b # 0
RDiv(a, b) == IF b.n > 0 THEN Rat(a.n * b.d, a.d * b.n)
                         ELSE Rat(-(a.n * b.d), a.d * (-b.n))
RLt(a, b) == a.n * b.d < b.n * a.d
RLe(a, b) == a.n * b.d <= b.n * a.d

\* int(x): truncation toward zero
int(x) == IF x.n >= 0 THEN x.n \div x.d ELSE -((-x.n) \div x.d)

\* a // b and range(0, n, step) with Python's semantics for negative operands
FloorDiv(a, b) == IF b > 0 THEN a \div b ELSE (-a) \div (-b)

RECURSIVE SeqSum(_)
SeqSum(s) == IF s = <<>> THEN R(0) ELSE RAdd(Head(s), SeqSum(Tail(s)))

\* min(xs), max(xs) of a non-empty list
SeqMin(s) == CHOOSE x \in {s[i] : i \in DOMAIN s} :
                 \A j \in DOMAIN s : RLe(x, s[j])
SeqMax(s) == CHOOSE x \in {s[i] : i \in DOMAIN s} :
                 \A j \in DOMAIN s : RLe(s[j], x)

----------------------------------------------------------------------------
(* Strings *)

NL == 10
SP == 32
MINUS == 45
DIGIT0 == 48
BOX_V == 9474        \* U+2502, the label separator
BOX_CORNER == 9492   \* U+2514
BOX_H == 9472        \* U+2500

Repeat(c, k) == [i \in 1..(IF k > 0 THEN k ELSE 0) |-> c]

\* s[:k]
Prefix(s, k) ==
    LET m == IF k >= 0 THEN (IF k < Len(s) THEN k ELSE Len(s))
                       ELSE (IF Len(s) + k > 0 THEN Len(s) + k ELSE 0)
    IN  SubSeq(s, 1, m)

\* s.rjust(w)
rjust(s, w) == Repeat(SP, w - Len(s)) \o s

RECURSIVE Digits(_)
Digits(k) == IF k < 10 THEN <<DIGIT0 + k>>
                       ELSE Append(Digits(k \div 10), DIGIT0 + (k % 10))

\* round-half-even of x >= 0
RoundHalfEven(x) ==
    LET q == x.n \div x.d
        r == x.n % x.d
    IN  IF 2 * r < x.d THEN q
        ELSE IF 2 * r > x.d THEN q + 1
        ELSE IF q % 2 = 0 THEN q ELSE q + 1

\* f"{x:.0f}"
FormatF0(x) ==
    IF x.n < 0 THEN <<MINUS>> \o Digits(RoundHalfEven([n |-> -x.n, d |-> x.d]))
               ELSE Digits(RoundHalfEven(x))

RECURSIVE Join(_)
\* "\n".join(lines)
Join(lines) ==
    IF lines = <<>> THEN <<>>
    ELSE IF Len(lines) = 1 THEN lines[1]
    ELSE lines[1] \o <<NL>> \o Join(Tail(lines))

NoHeartRateData ==
    <<78, 111, 32, 104, 101, 97, 114, 116, 32, 114, 97, 116, 101, 32, 100, 97, 116, 97>>
NoMETData == <<78, 111, 32, 77, 69, 84, 32, 100, 97, 116, 97>>

----------------------------------------------------------------------------
(* Readings.  A timestamp string is modelled by what datetime.fromisoformat *)
(* reads from it: "missing" is an absent key, None or "", "garbage" is text *)
(* that is no ISO-8601 date-time, "iso" is YYYY-MM-DDTHH:MM:SS with the     *)
(* fields as written (possibly out of range) and an optional trailing Z.    *)

Ts(k, dt, h, m, s, zulu) ==
    [kind |-> k, date |-> dt, hour |-> h, minute |-> m, second |-> s, z |-> zulu]

TsMissing == Ts("missing", 0, 0, 0, 0, FALSE)
TsGarbage == Ts("garbage", 0, 0, 0, 0, FALSE)

Reading(t, b) == [timestamp |-> t, bpm |-> b]

\* timestamp_str.replace("Z", "+00:00"): the marker becomes a numeric zero offset
ReplaceZ(t) == [t EXCEPT !.z = FALSE]

\* datetime.fromisoformat: ValueError unless the text is a date-time whose
\* fields are in range; the offset does not change dt.hour or dt.minute
fromisoformat(t) ==
    IF /\ t.kind = "iso"
       /\ t.z = FALSE
       /\ t.hour \in 0..23
       /\ t.minute \in 0..59
       /\ t.second \in 0..59
    THEN [ok |-> TRUE, hour |-> t.hour, minute |-> t.minute]
    ELSE [ok |-> FALSE, hour |-> 0, minute |-> 0]

NUM_TEN_MINUTE_BUCKETS == 144

\* mutant: the minutes are not divided by the bucket width
ComputedBucketIdx_MinutesUndivided(dt) == dt.hour * 6 + dt.minute

\* lines 45-47: bucket_idx of a parsed timestamp
ComputedBucketIdx(dt) ==
    LET total_minutes == dt.hour * 60 + dt.minute
    IN  total_minutes \div 10

\* lines 37-51: the bucket a reading is appended to, or -1 when it is skipped
BucketIdx(reading) ==
    IF reading.timestamp.kind # "missing" /\ ~IsNone(reading.bpm)
    THEN LET dt == fromisoformat(ReplaceZ(reading.timestamp))
             bucket_idx == ComputedBucketIdx(dt)
         IN  IF dt.ok /\ 0 <= bucket_idx /\ bucket_idx < NUM_TEN_MINUTE_BUCKETS
             THEN bucket_idx ELSE -1
    ELSE -1

\* lines 25-29
AllBpms(data) ==
    LET present == SelectSeq(data, LAMBDA r : ~IsNone(r.bpm))
    IN  [i \in DOMAIN present |-> present[i].bpm]

\* lines 30-31
ActualMin(data) ==
    IF AllBpms(data) # <<>> THEN RSub(SeqMin(AllBpms(data)), R(10)) ELSE R(0)
ActualMax(data) ==
    IF AllBpms(data) # <<>> THEN SeqMax(AllBpms(data)) ELSE R(100)

\* lines 34-51: ten_minute_buckets[k], the bpm values appended in list order
TenMinuteBucket(data, k) ==
    LET hit == SelectSeq(data, LAMBDA r : BucketIdx(r) = k)
    IN  [i \in DOMAIN hit |-> hit[i].bpm]

\* mutant: integer division of the sum
BucketAverage_FloorDiv(bucket) ==
    IF bucket # <<>> THEN R(int(RDiv(SeqSum(bucket), R(Len(bucket))))) ELSE R(0)

\* lines 54-59
BucketAverage(bucket) ==
    IF bucket # <<>> THEN RDiv(SeqSum(bucket), R(Len(bucket))) ELSE R(0)

HeartrateBuckets(data) ==
    [j \in 1..NUM_TEN_MINUTE_BUCKETS |-> BucketAverage(TenMinuteBucket(data, j - 1))]

----------------------------------------------------------------------------
(* The positional path, create_ascii_bar_chart lines 83-96 *)

\* range(0, n, step) for step # 0
Range0(n, step) ==
    IF step > 0 /\ n > 0 THEN [i \in 1..((n + step - 1) \div step) |-> (i - 1) * step]
    ELSE <<>>

\* met_items[i : i + size] for 0 <= i, size > 0
Slice(s, i, size) ==
    SubSeq(s, i + 1, IF i + size < Len(s) THEN i + size ELSE Len(s))

\* lines 84-86
BucketSize(n, num_buckets) ==
    IF FloorDiv(n, num_buckets) = 0 THEN 1 ELSE FloorDiv(n, num_buckets)

\* mutant: the slice is aggregated by its minimum
SliceMaxima_Min(items, bucket_size) ==
    LET starts == SelectSeq(Range0(Len(items), bucket_size),
                            LAMBDA i : Slice(items, i, bucket_size) # <<>>)
    IN  [j \in DOMAIN starts |-> SeqMin(Slice(items, starts[j], bucket_size))]

\* lines 88-93
SliceMaxima(items, bucket_size) ==
    LET starts == SelectSeq(Range0(Len(items), bucket_size),
                            LAMBDA i : Slice(items, i, bucket_size) # <<>>)
    IN  [j \in DOMAIN starts |-> SeqMax(Slice(items, starts[j], bucket_size))]

\* lines 83-96; num_buckets = 0 raises ZeroDivisionError at line 84
MetBuckets(items, w) ==
    LET num_buckets == w * 2
    IN  Prefix(SliceMaxima(items, BucketSize(Len(items), num_buckets)), num_buckets)

----------------------------------------------------------------------------
(* _create_ascii_bar_chart_from_buckets *)

braille_base == 10240
\* mutant: level 3 of the left table lights dot 1 before dot 2
left_patterns_OutOfOrder == <<0, 64, 68, 69, 71>>
left_patterns == <<0, 64, 68, 70, 71>>
right_patterns == <<0, 128, 160, 176, 184>>

\* a | b on non-negative integers
RECURSIVE BitOr(_, _)
BitOr(a, b) ==
    IF a = 0 THEN b
    ELSE IF b = 0 THEN a
    ELSE (IF a % 2 = 1 \/ b % 2 = 1 THEN 1 ELSE 0) + 2 * BitOr(a \div 2, b \div 2)

\* mutant: a maximum of 0 is kept
ResolveMax_NoFallback(bs, actual_max) ==
    IF ~IsNone(actual_max) THEN actual_max
    ELSE IF bs # <<>> THEN SeqMax(bs) ELSE R(1)

\* lines 151-153
ResolveMax(bs, actual_max) ==
    LET m == IF ~IsNone(actual_max) THEN actual_max
             ELSE IF bs # <<>> THEN SeqMax(bs) ELSE R(1)
    IN  IF m.n = 0 THEN R(1) ELSE m

\* mutant: the internal minimum is taken over all buckets, zeros included
ResolveMin_IncludesZero(bs, actual_min) ==
    IF ~IsNone(actual_min) THEN actual_min
    ELSE IF bs # <<>> THEN SeqMin(bs) ELSE R(0)

\* mutant: the supplied minimum is ignored
ResolveMin_IgnoresActual(bs, actual_min) ==
    LET non_zero_vals == SelectSeq(bs, LAMBDA v : RLt(R(0), v))
    IN  IF non_zero_vals # <<>> THEN SeqMin(non_zero_vals) ELSE R(0)

\* lines 156-160
ResolveMin(bs, actual_min) ==
    IF ~IsNone(actual_min) THEN actual_min
    ELSE LET non_zero_vals == SelectSeq(bs, LAMBDA v : RLt(R(0), v))
         IN  IF non_zero_vals # <<>> THEN SeqMin(non_zero_vals) ELSE R(0)

\* line 168
LabelRows(h) == IF h >= 10 THEN <<0, 2, 5, 7, 9>> ELSE <<0, FloorDiv(h, 2), h - 1>>

\* mutant: the row is scaled by height, not height - 1
ValueAtRow_DividesByHeight(row, h, lo, hi) ==
    IF row = 0 THEN hi
    ELSE IF row = h - 1 THEN lo
    ELSE RSub(hi, RMul(RDiv(R(row), R(h)), RSub(hi, lo)))

\* lines 173-178; row / (height - 1) needs height # 1
ValueAtRow(row, h, lo, hi) ==
    IF row = 0 THEN hi
    ELSE IF row = h - 1 THEN lo
    ELSE RSub(hi, RMul(RDiv(R(row), R(h - 1)), RSub(hi, lo)))

\* lines 167-179: the dict y_labels, as a function on its keys
YLabels(h, lo, hi) ==
    [row \in {LabelRows(h)[i] : i \in DOMAIN LabelRows(h)} |->
        FormatF0(ValueAtRow(row, h, lo, hi))]

\* line 182
MaxLabelWidth(y_labels) ==
    IF DOMAIN y_labels = {} THEN 0
    ELSE CHOOSE w \in {Len(y_labels[r]) : r \in DOMAIN y_labels} :
             \A r \in DOMAIN y_labels : Len(y_labels[r]) <= w

\* mutant: the bar measures the distance to the maximum
DotsFilled_Inverted(val, lo, hi, total_dots) ==
    LET value_range == RSub(hi, lo)
    IN  IF RLt(R(0), value_range) /\ RLt(R(0), val)
        THEN int(RMul(RDiv(RSub(hi, val), value_range), R(total_dots)))
        ELSE 0

\* mutant: an empty value range fills a positive value's bar
DotsFilled_RangeZeroFull(val, lo, hi, total_dots) ==
    LET value_range == RSub(hi, lo)
    IN  IF RLt(R(0), val)
        THEN (IF RLt(R(0), value_range)
              THEN int(RMul(RDiv(RSub(val, lo), value_range), R(total_dots)))
              ELSE total_dots)
        ELSE 0

\* mutant: the value is scaled against the maximum alone
DotsFilled_FromZero(val, lo, hi, total_dots) ==
    LET value_range == RSub(hi, lo)
    IN  IF RLt(R(0), value_range) /\ RLt(R(0), val)
        THEN int(RMul(RDiv(val, hi), R(total_dots)))
        ELSE 0

\* lines 200-204 and 218-221
DotsFilled(val, lo, hi, total_dots) ==
    LET value_range == RSub(hi, lo)
    IN  IF RLt(R(0), value_range) /\ RLt(R(0), val)
        THEN int(RMul(RDiv(RSub(val, lo), value_range), R(total_dots)))
        ELSE 0

\* mutant: the dot windows are counted from the top row
FillLevel_TopDown(dots_filled, row, total_dots) ==
    LET row_bottom == row * 4
        row_top == row_bottom + 4
    IN  IF dots_filled <= row_bottom THEN 0
        ELSE IF dots_filled >= row_top THEN 4
        ELSE dots_filled - row_bottom

\* lines 206-215 and 223-229: the index into the 5-entry pattern table
FillLevel(dots_filled, row, total_dots) ==
    LET row_bottom == total_dots - (row + 1) * 4
        row_top == row_bottom + 4
    IN  IF dots_filled <= row_bottom THEN 0
        ELSE IF dots_filled >= row_top THEN 4
        ELSE dots_filled - row_bottom

\* patterns[level], Python indexing; -1 stands for IndexError
PatternAt(patterns, level) ==
    IF level \in 0..(Len(patterns) - 1) THEN patterns[level + 1]
    ELSE IF level \in (-Len(patterns))..(-1) THEN patterns[Len(patterns) + level + 1]
    ELSE -1

\* lines 195-234: the glyph of one character cell (i is the left bucket's index)
Glyph(bs, i, row, h, lo, hi) ==
    LET total_dots == h * 4
        left_val == IF i < Len(bs) THEN bs[i + 1] ELSE R(0)
        right_val == IF i + 1 < Len(bs) THEN bs[i + 2] ELSE R(0)
        left_pattern ==
            PatternAt(left_patterns,
                      FillLevel(DotsFilled(left_val, lo, hi, total_dots), row, total_dots))
        right_pattern ==
            PatternAt(right_patterns,
                      FillLevel(DotsFilled(right_val, lo, hi, total_dots), row, total_dots))
    IN  IF left_pattern < 0 \/ right_pattern < 0 THEN -1
        ELSE braille_base + BitOr(left_pattern, right_pattern)

\* mutant: the pairing loop stops before an unpaired last bucket
ChartLine_DropsOddBucket(bs, row, h, lo, hi, y_labels) ==
    LET max_label_width == MaxLabelWidth(y_labels)
        label == IF row \in DOMAIN y_labels THEN rjust(y_labels[row], max_label_width)
                 ELSE Repeat(SP, max_label_width)
        starts == Range0(Len(bs) - 1, 2)
    IN  label \o <<SP, BOX_V, SP>> \o
        [c \in DOMAIN starts |-> Glyph(bs, starts[c], row, h, lo, hi)]

\* lines 186-235: one chart line
ChartLine(bs, row, h, lo, hi, y_labels) ==
    LET max_label_width == MaxLabelWidth(y_labels)
        label == IF row \in DOMAIN y_labels THEN rjust(y_labels[row], max_label_width)
                 ELSE Repeat(SP, max_label_width)
        starts == Range0(Len(bs), 2)
    IN  label \o <<SP, BOX_V, SP>> \o
        [c \in DOMAIN starts |-> Glyph(bs, starts[c], row, h, lo, hi)]

\* mutant: a single-digit hour is written digit first
HourPart_DigitFirst(hour) ==
    IF hour < 10 THEN <<DIGIT0 + hour, SP, SP>>
    ELSE Digits(hour) \o <<SP>>

\* lines 245-252
HourPart(hour) ==
    IF hour < 10 THEN <<SP, DIGIT0 + hour, SP>>
    ELSE Digits(hour) \o <<SP>>

RECURSIVE HourParts(_)
HourParts(k) == IF k = 0 THEN <<>> ELSE HourParts(k - 1) \o HourPart(k - 1)

HOURS == 24

\* mutant: the baseline is not appended
RenderText_NoBaseline(bs, w, h, lo, hi) ==
    LET y_labels == YLabels(h, lo, hi)
        max_label_width == MaxLabelWidth(y_labels)
        lines == [r \in 1..(IF h > 0 THEN h ELSE 0) |->
                     ChartLine(bs, r - 1, h, lo, hi, y_labels)]
        hour_line == Repeat(SP, max_label_width + 3) \o Prefix(HourParts(HOURS), w)
    IN  Join(lines \o <<hour_line>>)

\* lines 150-258: the string returned
RenderText(bs, w, h, lo, hi) ==
    LET y_labels == YLabels(h, lo, hi)
        max_label_width == MaxLabelWidth(y_labels)
        lines == [r \in 1..(IF h > 0 THEN h ELSE 0) |->
                     ChartLine(bs, r - 1, h, lo, hi, y_labels)]
        baseline == Repeat(SP, max_label_width) \o <<SP, BOX_CORNER>> \o Repeat(BOX_H, w)
        hour_line == Repeat(SP, max_label_width + 3) \o Prefix(HourParts(HOURS), w)
    IN  Join(lines \o <<baseline, hour_line>>)

\* the exception the renderer raises, "none" when it returns
RenderError(bs, h, text) ==
    IF \E i \in DOMAIN LabelRows(h) :
           LET row == LabelRows(h)[i] IN row # 0 /\ row # h - 1 /\ h - 1 = 0
    THEN "ZeroDivisionError"
    ELSE IF \E i \in DOMAIN text : text[i] < 0 THEN "IndexError"
    ELSE "none"

\* lines 162-258 for the resolved domain {lo, hi}: what the renderer returns or raises
RenderReturn(bs, w, h, lo, hi) ==
    LET text == RenderText(bs, w, h, lo, hi)
        error == RenderError(bs, h, text)
    IN  [error |-> error, text |-> IF error = "none" THEN text ELSE <<>>]

----------------------------------------------------------------------------
(* The arguments of a call *)

Iso(dt, h, m, sec, zulu) == Ts("iso", dt, h, m, sec, zulu)

\* Readings as the Oura API returns them, with the defects the code guards against
ReadingPool ==
    { Reading(Iso(1, 0, 0, 0, FALSE), R(60)),
      Reading(Iso(2, 0, 5, 30, TRUE), R(70)),     \* another day, seconds, trailing Z
      Reading(Iso(1, 0, 10, 0, FALSE), R(80)),
      Reading(Iso(1, 23, 59, 59, FALSE), R(90)),
      Reading(Iso(1, 0, 0, 0, FALSE), None),      \* value missing
      Reading(TsMissing, R(100)),                 \* timestamp missing
      Reading(TsGarbage, R(50)),                  \* timestamp is no date-time
      Reading(Iso(1, 25, 0, 0, FALSE), R(70)) }   \* hour field out of range

\* a reading whose value is 0, and one day of readings in four buckets
ZeroReading == Reading(Iso(1, 0, 0, 0, FALSE), R(0))
\* an ordinary reading, tried under every width and height
PlainReading == Reading(Iso(1, 0, 0, 0, FALSE), R(60))
DayReadings ==
    << Reading(Iso(1, 0, 0, 0, FALSE), R(60)),
       Reading(Iso(2, 0, 5, 30, TRUE), R(70)),
       Reading(Iso(1, 0, 10, 0, FALSE), R(80)),
       Reading(Iso(1, 0, 20, 0, FALSE), R(75)),
       Reading(Iso(1, 12, 30, 0, FALSE), R(64)),
       Reading(Iso(1, 23, 59, 59, FALSE), R(90)) >>

SeqsUpTo(S, k) == UNION {[1..m -> S] : m \in 0..k}

Widths == {-1, 0, 1, 2, 72, 73}
Heights == (-1..MaxHeight) \cup {10, 11}
DEFAULT_WIDTH == 72

\* a generated list of `len` per-minute MET values
DayPattern(len, p) == [i \in 1..len |-> R((((i - 1) \div 3) * (p + 2)) % 11)]
DayLengths == {100, 300, 1440}

Call(e, d, m, w, h) ==
    [entry |-> e, heartrate_data |-> d, met_items |-> m, width |-> w, height |-> h]

\* the readings of the pool that land in a bucket
CoreReadings ==
    {r \in ReadingPool :
        r.timestamp.kind = "iso" /\ r.timestamp.hour < 24 /\ ~IsNone(r.bpm)}

\* every list of up to two readings; a longer list is any reading followed by
\* readings that land in a bucket
HeartrateLists ==
    SeqsUpTo(ReadingPool, 2)
    \cup {<<r>> \o t : r \in ReadingPool, t \in SeqsUpTo(CoreReadings, MaxSamples - 1)}

\* the lists of readings under one configuration, short lists under every
\* configuration, one day of readings under every height
HeartrateCalls ==
    {Call("heartrate", d, <<>>, DEFAULT_WIDTH, 2) : d \in HeartrateLists}
    \cup
    {Call("heartrate", d, <<>>, w, h) :
        d \in SeqsUpTo({PlainReading, ZeroReading}, 1), w \in Widths, h \in Heights}
    \cup
    {Call("heartrate", DayReadings, <<>>, DEFAULT_WIDTH, h) : h \in Heights}

MetValues == {R(v) : v \in 0..MaxMet}
\* the least, the least positive and the greatest of them
EdgeMetValues == {R(0), R(1), R(MaxMet)}

MetCalls ==
    {Call("met", <<>>, m, w, h) :
        m \in SeqsUpTo(MetValues, MaxItems), w \in {1, 2}, h \in {2}}
    \cup
    {Call("met", <<>>, m, w, h) :
        m \in SeqsUpTo(EdgeMetValues, ShortLen), w \in Widths, h \in Heights}
    \cup
    {Call("met", <<>>, DayPattern(len, p), w, h) :
        len \in DayLengths, p \in 1..NumPatterns, w \in {1, DEFAULT_WIDTH}, h \in {1, 2}}
    \cup
    {Call("met", <<>>, DayPattern(100, p), DEFAULT_WIDTH, h) :
        p \in 1..NumPatterns, h \in Heights}

Calls == HeartrateCalls \cup MetCalls

----------------------------------------------------------------------------
(* The state machine *)

NoReturn == [error |-> "none", text |-> <<>>]

Init ==
    /\ pc = "ready"
    /\ \E c \in Calls :
        /\ entry = c.entry
        /\ heartrate_data = c.heartrate_data
        /\ met_items = c.met_items
        /\ width = c.width
        /\ height = c.height
    /\ rendered = FALSE
    /\ buckets = <<>>
    /\ min_val = None
    /\ max_val = None
    /\ ret = NoReturn

\* a return or raise before the renderer is reached
ReturnEarly(error, text) ==
    /\ ret' = [error |-> error, text |-> text]
    /\ rendered' = FALSE
    /\ buckets' = <<>>
    /\ min_val' = None
    /\ max_val' = None

\* return _create_ascii_bar_chart_from_buckets(bs, width, height, unit, actual_min, actual_max)
ReturnRender(bs, actual_min, actual_max) ==
    /\ rendered' = TRUE
    /\ buckets' = bs
    /\ max_val' = ResolveMax(buckets', actual_max)
    /\ min_val' = ResolveMin(buckets', actual_min)
    /\ ret' = RenderReturn(buckets', width, height, min_val', max_val')

create_heartrate_bar_chart_ascii ==
    /\ pc = "ready"
    /\ entry = "heartrate"
    /\ IF heartrate_data = <<>>
       THEN ReturnEarly("none", NoHeartRateData)
       ELSE ReturnRender(HeartrateBuckets(heartrate_data),
                         ActualMin(heartrate_data), ActualMax(heartrate_data))
    /\ pc' = "done"
    /\ UNCHANGED <<entry, heartrate_data, met_items, width, height>>

\* mutant: the bucket size is computed before the empty list is checked
create_ascii_bar_chart_DividesFirst ==
    /\ pc = "ready"
    /\ entry = "met"
    /\ IF width * 2 = 0
       THEN ReturnEarly("ZeroDivisionError", <<>>)
       ELSE IF met_items = <<>>
       THEN ReturnEarly("none", NoMETData)
       ELSE ReturnRender(MetBuckets(met_items, width), None, None)
    /\ pc' = "done"
    /\ UNCHANGED <<entry, heartrate_data, met_items, width, height>>

create_ascii_bar_chart ==
    /\ pc = "ready"
    /\ entry = "met"
    /\ IF met_items = <<>>
       THEN ReturnEarly("none", NoMETData)
       ELSE IF width * 2 = 0
       THEN ReturnEarly("ZeroDivisionError", <<>>)
       ELSE ReturnRender(MetBuckets(met_items, width), None, None)
    /\ pc' = "done"
    /\ UNCHANGED <<entry, heartrate_data, met_items, width, height>>

Next == create_heartrate_bar_chart_ascii \/ create_ascii_bar_chart

Spec == Init /\ [][Next]_vars

----------------------------------------------------------------------------
(* Reading a returned string back *)

Done == pc = "done"
Returned == pc = "done" /\ ret.error = "none"

NLPos(text) == {i \in DOMAIN text : text[i] = NL}
NumLines(text) == Cardinality(NLPos(text)) + 1

\* position of the k-th newline of text; 0 for k = 0, Len(text) + 1 past the last
KthNL(text, k) ==
    IF k = 0 THEN 0
    ELSE IF k > Cardinality(NLPos(text)) THEN Len(text) + 1
    ELSE CHOOSE i \in NLPos(text) : Cardinality({j \in NLPos(text) : j <= i}) = k

\* text.split("\n")[k - 1]
LineOf(text, k) == SubSeq(text, KthNL(text, k - 1) + 1, KthNL(text, k) - 1)

Chars(line) == {line[i] : i \in DOMAIN line}

\* the part of a bar row after the label separator and its space
GlyphsOf(line) ==
    LET p == CHOOSE i \in DOMAIN line : line[i] = BOX_V
    IN  SubSeq(line, p + 2, Len(line))

IsBarRow(line) ==
    /\ Cardinality({i \in DOMAIN line : line[i] = BOX_V}) = 1
    /\ \E p \in DOMAIN line :
        /\ line[p] = BOX_V
        /\ p < Len(line) /\ line[p + 1] = SP
        /\ \A i \in 1..(p - 1) : line[i] \in {SP, MINUS} \cup (DIGIT0..(DIGIT0 + 9))
        /\ \A i \in (p + 2)..Len(line) : line[i] \in braille_base..(braille_base + 255)

IsBaseline(line) ==
    \E p \in DOMAIN line :
        /\ line[p] = BOX_CORNER
        /\ \A i \in 1..(p - 1) : line[i] = SP
        /\ \A i \in (p + 1)..Len(line) : line[i] = BOX_H

IsHourLine(line) == Chars(line) \subseteq ({SP} \cup (DIGIT0..(DIGIT0 + 9)))

NonEmptyInput ==
    \/ entry = "heartrate" /\ heartrate_data # <<>>
    \/ entry = "met" /\ met_items # <<>>

----------------------------------------------------------------------------
(* C1: for a non-empty input list and height >= 1 the returned string is    *)
(* exactly height + 2 newline-separated lines: height bar rows, then the    *)
(* baseline, then the hour-label line.                                      *)
C1_LineCount ==
    (Returned /\ NonEmptyInput /\ height >= 1) =>
        /\ NumLines(ret.text) = height + 2
        /\ \A k \in 1..height : IsBarRow(LineOf(ret.text, k))
        /\ IsBaseline(LineOf(ret.text, height + 1))
        /\ IsHourLine(LineOf(ret.text, height + 2))

C1_Witness ==
    /\ Returned /\ entry = "heartrate" /\ Len(heartrate_data) = 1 /\ height = 10
    /\ NumLines(ret.text) = 12

C3_EmptySentinel ==
    (Done /\ ~NonEmptyInput) =>
        /\ ret.error = "none"
        /\ ret.text = (IF entry = "heartrate" THEN NoHeartRateData ELSE NoMETData)
        /\ ~rendered /\ buckets = <<>> /\ IsNone(min_val) /\ IsNone(max_val)

C3_Witness ==
    /\ Done /\ entry = "met" /\ met_items = <<>> /\ width = 0 /\ height = -1
    /\ ret.text = NoMETData

----------------------------------------------------------------------------
(* Readings as the claims speak of them *)

\* the timestamp text is an ISO-8601 date-time (with or without a trailing Z)
Parseable(t) ==
    t.kind = "iso" /\ t.hour \in 0..23 /\ t.minute \in 0..59 /\ t.second \in 0..59

\* the timestamp is present but is no date-time
Unparseable(t) == t.kind # "missing" /\ ~Parseable(t)

\* readings of `data` that count for bucket k
Contributors(data, k) ==
    {i \in DOMAIN data :
        /\ Parseable(data[i].timestamp)
        /\ ~IsNone(data[i].bpm)
        /\ (data[i].timestamp.hour * 60 + data[i].timestamp.minute) \div 10 = k}

RECURSIVE SumBpm(_, _)
SumBpm(data, I) ==
    IF I = {} THEN R(0)
    ELSE LET i == CHOOSE j \in I : TRUE
         IN  RAdd(data[i].bpm, SumBpm(data, I \ {i}))

RemoveAt(seq, i) == SubSeq(seq, 1, i - 1) \o SubSeq(seq, i + 1, Len(seq))

\* what create_heartrate_bar_chart_ascii computes for a non-empty list
HeartrateResult(data, w, h) ==
    LET bs == HeartrateBuckets(data)
        hi == ResolveMax(bs, ActualMax(data))
        lo == ResolveMin(bs, ActualMin(data))
    IN  [buckets |-> bs, min_val |-> lo, max_val |-> hi,
         ret |-> RenderReturn(bs, w, h, lo, hi)]

HeartrateRendered == Done /\ entry = "heartrate" /\ heartrate_data # <<>>
MetRendered == Done /\ entry = "met" /\ rendered

----------------------------------------------------------------------------
(* C4: on the timestamp path bucket k (0..143) is the arithmetic mean of    *)
(* the values of the readings with a parseable timestamp, a present value   *)
(* and floor((hour * 60 + minute) / 10) = k, whatever their date and        *)
(* seconds, and 0 when there is no such reading.                            *)
C4_BucketMean ==
    HeartrateRendered =>
        /\ Len(buckets) = 144
        /\ \A k \in 0..143 :
               LET I == Contributors(heartrate_data, k)
               IN  IF I = {} THEN buckets[k + 1] = R(0)
                   ELSE buckets[k + 1] = RDiv(SumBpm(heartrate_data, I), R(Cardinality(I)))

C4_Witness ==
    /\ HeartrateRendered
    /\ heartrate_data = << Reading(Iso(1, 0, 0, 0, FALSE), R(60)),
                           Reading(Iso(2, 0, 5, 30, TRUE), R(70)),
                           Reading(Iso(1, 0, 10, 0, FALSE), R(80)) >>
    /\ buckets[1] = R(65)
    /\ buckets[2] = R(80)
    /\ \A j \in 3..144 : buckets[j] = R(0)

(* C5: on the positional path, with slice size s = max(1, floor(len / B))   *)
(* and B = 2 * width, every produced bucket k is the maximum of             *)
(* values[k*s : (k+1)*s]; 1440 values and width 72 give 144 buckets of 10.  *)
C5_SliceMax ==
    MetRendered =>
        LET n == Len(met_items)
            B == 2 * width
            s == IF B > 0 /\ n \div B >= 1 THEN n \div B ELSE 1
        IN  /\ \A k \in 0..(Len(buckets) - 1) :
                   LET slice == {i \in 1..n : k * s < i /\ i <= (k + 1) * s}
                   IN  /\ slice # {}
                       /\ \E i \in slice : buckets[k + 1] = met_items[i]
                       /\ \A i \in slice : RLe(met_items[i], buckets[k + 1])
            /\ (n = 1440 /\ width = 72) => (s = 10 /\ Len(buckets) = 144)

C5_Witness ==
    /\ MetRendered /\ Len(met_items) = 1440 /\ width = 72
    /\ Len(buckets) = 144
    /\ buckets[1] = met_items[10] /\ buckets[1] # met_items[1]

(* C6: for every non-empty list and width >= 1 the positional path hands    *)
(* the renderer exactly B = 2 * width buckets (truncated or padded).        *)
(* The code only truncates: a list shorter than B gives fewer buckets.      *)
C6_ExactlyB ==
    (MetRendered /\ width >= 1) => Len(buckets) = 2 * width

(* C7: a reading with a missing timestamp or a missing value is inert:      *)
(* removing it from a list that keeps another reading changes nothing in    *)
(* the result (buckets, domain, returned string).                           *)
(* The code takes the Y domain from every present bpm, timestamp or not.    *)
C7_InertReadings ==
    HeartrateRendered =>
        \A i \in DOMAIN heartrate_data :
            (/\ Len(heartrate_data) >= 2
             /\ \/ heartrate_data[i].timestamp.kind = "missing"
                \/ IsNone(heartrate_data[i].bpm))
            => HeartrateResult(RemoveAt(heartrate_data, i), width, height)
                   = [buckets |-> buckets, min_val |-> min_val,
                      max_val |-> max_val, ret |-> ret]

(* C8: the bucket index computed for a parseable timestamp lies in          *)
(* [0, 144); a reading whose timestamp is unparseable is skipped, the call  *)
(* still returns a chart, and the 144 buckets are those of the list         *)
(* without that reading.                                                    *)
C8_IndexRangeAndSkip ==
    HeartrateRendered =>
        /\ rendered /\ ret.error = "none"
        /\ \A i \in DOMAIN heartrate_data :
               LET t == heartrate_data[i].timestamp
                   dt == fromisoformat(ReplaceZ(t))
               IN  /\ Parseable(t) => (dt.ok /\ ComputedBucketIdx(dt) \in 0..143)
                   /\ Unparseable(t) =>
                          buckets = HeartrateBuckets(RemoveAt(heartrate_data, i))

C8_Witness ==
    /\ HeartrateRendered /\ Len(heartrate_data) = 3
    /\ Unparseable(heartrate_data[1].timestamp) /\ ~IsNone(heartrate_data[1].bpm)
    /\ Parseable(heartrate_data[2].timestamp) /\ heartrate_data[2].timestamp.hour = 23
    /\ buckets[144] = heartrate_data[2].bpm
    /\ buckets[1] = heartrate_data[3].bpm

(* C9: no call fails: for every input list and every integer width and      *)
(* height both entry points return a string.                                *)
(* create_ascii_bar_chart divides by 2 * width: width 0 raises.             *)
C9_NeverRaises == Done => ret.error = "none"

(* C10: without external bounds, max is the largest bucket value, 1.0 when  *)
(* that is 0 or there are no buckets; min is the smallest strictly positive *)
(* bucket value, 0 when there is none.  All-zero buckets give {0, 1.0}.     *)
C10_InternalDomain ==
    MetRendered =>
        LET vals == {buckets[i] : i \in DOMAIN buckets}
            pos == {v \in vals : RLt(R(0), v)}
        IN  /\ IF vals = {} THEN max_val = R(1)
               ELSE \E m \in vals :
                       /\ \A v \in vals : RLe(v, m)
                       /\ max_val = (IF m = R(0) THEN R(1) ELSE m)
            /\ IF pos = {} THEN min_val = R(0)
               ELSE min_val \in pos /\ \A v \in pos : RLe(min_val, v)
            /\ vals = {R(0)} => (min_val = R(0) /\ max_val = R(1))

C10_Witness ==
    /\ MetRendered /\ buckets = <<R(0), R(0), R(0)>>
    /\ min_val = R(0) /\ max_val = R(1)

----------------------------------------------------------------------------
(* The raw values of a heart-rate call *)

PresentBpms == {heartrate_data[i].bpm : i \in {j \in DOMAIN heartrate_data :
                                                 ~IsNone(heartrate_data[j].bpm)}}
RawMin == CHOOSE v \in PresentBpms : \A u \in PresentBpms : RLe(v, u)
RawMax == CHOOSE v \in PresentBpms : \A u \in PresentBpms : RLe(u, v)

(* C11 as claimed: with external bounds the resolved domain is the supplied *)
(* pair verbatim, on the heart-rate path min = rawMin - 10, max = rawMax.   *)
(* A supplied max of 0 is replaced by 1.0.                                  *)
C11_Verbatim ==
    (HeartrateRendered /\ PresentBpms # {}) =>
        /\ min_val = RSub(RawMin, R(10))
        /\ max_val = RawMax

(* C11, amended: the resolved domain is the supplied pair, except that a    *)
(* supplied max of exactly 0 becomes 1.0; the heart-rate path supplies      *)
(* min = rawMin - 10 and max = rawMax over the readings whose value is      *)
(* present, timestamp or not, and (0, 100) when no reading has a value.     *)
C11_SuppliedDomain ==
    HeartrateRendered =>
        IF PresentBpms = {} THEN min_val = R(0) /\ max_val = R(100)
        ELSE /\ min_val = RSub(RawMin, R(10))
             /\ max_val = (IF RawMax = R(0) THEN R(1) ELSE RawMax)

C11_Witness ==
    /\ HeartrateRendered /\ Len(heartrate_data) = 3
    /\ heartrate_data[1].timestamp.kind = "missing"
    /\ min_val = R(50) /\ max_val = R(100)
    /\ buckets[1] = R(65)

----------------------------------------------------------------------------
(* The layout of a returned chart: every bar row is a label column of       *)
(* LabelW characters, " │ ", and NumCols glyphs.                            *)

Charted == Returned /\ rendered

\* width of the label column: the separator (or the corner) stands at LabelW + 2
LabelW ==
    CHOOSE w \in 0..(Len(ret.text) - 2) :
        /\ ret.text[w + 2] \in {BOX_V, BOX_CORNER}
        /\ \A i \in 1..(w + 1) : ret.text[i] \notin {BOX_V, BOX_CORNER}

NumCols == (Len(buckets) + 1) \div 2
RowLen == LabelW + 3 + NumCols

\* the j-th character of bar row r (r = 0 is the top row)
CharAt(r, j) == ret.text[r * (RowLen + 1) + j]

\* the label column of bar row r, without its padding
RECURSIVE StripLeft(_)
StripLeft(str) ==
    IF str # <<>> /\ Head(str) = SP THEN StripLeft(Tail(str)) ELSE str

LabelOf(r) == StripLeft([j \in 1..LabelW |-> CharAt(r, j)])

\* the glyph of bar row r over buckets 2c - 1 and 2c (c = 1 .. NumCols)
GlyphAt(r, c) == CharAt(r, LabelW + 3 + c)

ClaimedLabelRows ==
    IF height >= 10 THEN {0, 2, 5, 7, 9} ELSE {0, height \div 2, height - 1}

Interpolated(r) ==
    RSub(max_val, RMul(RDiv(R(r), R(height - 1)), RSub(max_val, min_val)))

(* C12 as claimed: labelled rows are {0,2,5,7,9} for height >= 10 and       *)
(* {0, height div 2, height - 1} otherwise, and for every height >= 1 row 0 *)
(* shows max, row height - 1 shows min, any other labelled row the          *)
(* interpolated value, with zero decimals.                                  *)
(* Height 1 shows max in its only row; from height 11 on the bottom row     *)
(* has no label.                                                            *)
C12_LabelsAsClaimed ==
    (Charted /\ height >= 1) =>
        /\ \A r \in 0..(height - 1) : (LabelOf(r) # <<>>) <=> (r \in ClaimedLabelRows)
        /\ LabelOf(0) = FormatF0(max_val)
        /\ LabelOf(height - 1) = FormatF0(min_val)
        /\ \A r \in ClaimedLabelRows \ {0, height - 1} :
               LabelOf(r) = FormatF0(Interpolated(r))

(* C12, amended: the labelled rows are as claimed; row 0 shows max; row     *)
(* height - 1 shows min when 2 <= height <= 10 (height 1 has only row 0,    *)
(* from height 11 on row height - 1 is unlabelled); every other labelled    *)
(* row r shows max - (r / (height - 1)) * (max - min); zero decimals.       *)
C12_Labels ==
    (Charted /\ height >= 1) =>
        /\ \A r \in 0..(height - 1) : (LabelOf(r) # <<>>) <=> (r \in ClaimedLabelRows)
        /\ LabelOf(0) = FormatF0(max_val)
        /\ (2 <= height /\ height <= 10) => LabelOf(height - 1) = FormatF0(min_val)
        /\ height >= 11 => LabelOf(height - 1) = <<>>
        /\ \A r \in ClaimedLabelRows \ {0, height - 1} :
               LabelOf(r) = FormatF0(Interpolated(r))

C12_Witness ==
    /\ Charted /\ height = 10 /\ entry = "heartrate"
    /\ min_val = R(50) /\ max_val = R(90)
    /\ LabelOf(0) = <<DIGIT0 + 9, DIGIT0>>
    /\ LabelOf(2) = <<DIGIT0 + 8, DIGIT0 + 1>>
    /\ LabelOf(5) = <<DIGIT0 + 6, DIGIT0 + 8>>
    /\ LabelOf(9) = <<DIGIT0 + 5, DIGIT0>>
    /\ LabelOf(1) = <<>>

----------------------------------------------------------------------------
(* Fill levels read back from the glyphs of the returned text.              *)

Bit(m, b) == (m \div (2 ^ b)) % 2
LeftDots(m) == Bit(m, 6) + Bit(m, 2) + Bit(m, 1) + Bit(m, 0)
RightDots(m) == Bit(m, 7) + Bit(m, 5) + Bit(m, 4) + Bit(m, 3)

\* sub-column s (1 .. 2 * NumCols) is the bar of bucket s
LevelAt(r, s) ==
    LET m == GlyphAt(r, (s + 1) \div 2) - braille_base
    IN  IF s % 2 = 1 THEN LeftDots(m) ELSE RightDots(m)

\* the levels of one sub-column, top row first
Bar(s) == [k \in 1..height |-> LevelAt(k - 1, s)]

SubColumns == 1..(2 * NumCols)

(* C13: within any sub-column, a row below a non-empty row is full, and so  *)
(* of two non-empty rows the lower one has the greater or equal level.      *)
C13_GapFree ==
    (Charted /\ height >= 1) =>
        \A s \in SubColumns : \A bar \in {Bar(s)} :
            \A k \in 1..height :
                bar[k] > 0 =>
                    \A below \in (k + 1)..height :
                        /\ bar[below] = 4
                        /\ bar[below] >= bar[k]

C13_Witness ==
    /\ Charted /\ height = 3 /\ entry = "heartrate"
    /\ Bar(2) = <<1, 4, 4>>
    /\ Bar(3) = <<0, 3, 4>>
    /\ Bar(144) = <<4, 4, 4>>

----------------------------------------------------------------------------
(* The hour line: what follows the last newline of the returned text.       *)

LastNL == CHOOSE i \in NLPos(ret.text) : \A j \in NLPos(ret.text) : j <= i
HourLine == SubSeq(ret.text, LastNL + 1, Len(ret.text))

\* the j-th character (j = 1 .. 72) of the 24 three-character hour slots
SlotChar(j) ==
    LET hour == (j - 1) \div 3
        p == (j - 1) % 3
    IN  IF hour < 10 THEN (IF p = 1 THEN DIGIT0 + hour ELSE SP)
        ELSE IF p = 0 THEN DIGIT0 + (hour \div 10)
        ELSE IF p = 1 THEN DIGIT0 + (hour % 10)
        ELSE SP

SlotsLen == 3 * HOURS
SlotPrefix(k) == [j \in 1..k |-> SlotChar(j)]

(* C14 as claimed: for every width >= 1 the hour line is (label width + 3)  *)
(* spaces followed by the hour slots cut to exactly width characters, so    *)
(* the part after the padding has length exactly width.                     *)
(* The 24 slots are 72 characters: a width above 72 leaves 72.              *)
C14_ExactlyWidth ==
    (Charted /\ width >= 1) =>
        /\ Len(HourLine) = LabelW + 3 + width
        /\ \A j \in 1..(LabelW + 3) : HourLine[j] = SP
        /\ \A j \in 1..width : j <= SlotsLen => HourLine[LabelW + 3 + j] = SlotChar(j)

(* C14, amended: for every width >= 1 the hour line is (label width + 3)    *)
(* spaces followed by the first min(width, 72) characters of the 24 hour    *)
(* slots (" H " for hours 0-9, "HH " for hours 10-23).                      *)
C14_HourLine ==
    (Charted /\ width >= 1) =>
        HourLine = Repeat(SP, LabelW + 3) \o
                   SlotPrefix(IF width <= SlotsLen THEN width ELSE SlotsLen)

C14_Witness ==
    /\ Charted /\ width = 73 /\ height = 2
    /\ Len(HourLine) = LabelW + 3 + 72
    /\ SubSeq(HourLine, LabelW + 4, LabelW + 6) = <<SP, DIGIT0, SP>>
    /\ SubSeq(HourLine, Len(HourLine) - 2, Len(HourLine)) = <<DIGIT0 + 2, DIGIT0 + 3, SP>>

----------------------------------------------------------------------------
\* the bucket indices at which the pairing loop starts a cell (line 195)
PairStarts == Range0(Len(buckets), 2)

(* C15: for every non-empty input and width >= 1 the number of buckets      *)
(* handed to the renderer is even and at least 2, and every index at which  *)
(* the pairing loop reads a left value lies in [0, bucketCount).            *)
(* The positional path never pads (C6): a list shorter than 2 * width       *)
(* gives as many buckets as it has items, one for a single item.            *)
C15_EvenAtLeastTwo ==
    (Done /\ rendered /\ NonEmptyInput /\ width >= 1) =>
        /\ Len(buckets) % 2 = 0
        /\ Len(buckets) >= 2
        /\ \A c \in DOMAIN PairStarts : PairStarts[c] \in 0..(Len(buckets) - 1)

----------------------------------------------------------------------------
(* The fill arithmetic as the specification states it, on the resolved      *)
(* domain of the call.                                                      *)

Floor(q) == FloorDiv(q.n, q.d)
Min2(a, b) == IF a <= b THEN a ELSE b
Max2(a, b) == IF a >= b THEN a ELSE b

ValueRange == RSub(max_val, min_val)

\* dotsFilled of a bucket value
SpecDots(v) ==
    IF RLt(R(0), ValueRange) /\ RLt(R(0), v)
    THEN Floor(RMul(RDiv(RSub(v, min_val), ValueRange), R(height * 4)))
    ELSE 0

RowBottom(r) == height * 4 - (r + 1) * 4
SpecLevel(dots_filled, r) == Min2(4, Max2(0, dots_filled - RowBottom(r)))

\* the value behind sub-column s: a missing right bucket counts as 0
ValueOf(s) == IF s <= Len(buckets) THEN buckets[s] ELSE R(0)

RECURSIVE BarSum(_)
BarSum(bar) == IF bar = <<>> THEN 0 ELSE Head(bar) + BarSum(Tail(bar))

(* C16: every sub-column's level in row r is                                *)
(* min(4, max(0, dotsFilled - rowBottom)), rowBottom = height*4 - (r+1)*4,  *)
(* dotsFilled = floor(((value - min) / (max - min)) * height * 4) when      *)
(* max - min > 0 and value > 0, else 0; the levels of a sub-column sum to   *)
(* dotsFilled clamped to [0, height*4]; the pattern index is in 0..4, so    *)
(* the table lookup never fails.                                            *)
C16_FillLevel ==
    /\ Done => ret.error # "IndexError"
    /\ (Charted /\ height >= 1) =>
        \A s \in SubColumns : \A bar \in {Bar(s)}, dots_filled \in {SpecDots(ValueOf(s))} :
            /\ \A r \in 0..(height - 1) :
                   /\ bar[r + 1] = SpecLevel(dots_filled, r)
                   /\ bar[r + 1] \in 0..4
            /\ BarSum(bar) = Min2(height * 4, Max2(0, dots_filled))

C16_Witness ==
    /\ Charted /\ height = 2 /\ entry = "heartrate"
    /\ min_val = R(50) /\ max_val = R(90)
    /\ buckets[1] = R(65) /\ SpecDots(buckets[1]) = 3 /\ Bar(1) = <<0, 3>>
    /\ buckets[3] = R(75) /\ SpecDots(buckets[3]) = 5 /\ Bar(3) = <<1, 4>>

----------------------------------------------------------------------------
AllBlank ==
    \A r \in 0..(height - 1) : \A c \in 1..NumCols : GlyphAt(r, c) = braille_base

AllZero == \A i \in DOMAIN buckets : buckets[i] = R(0)

(* C17: whenever the resolved range max - min is 0, every glyph of every    *)
(* bar row is the blank cell U+2800; so it is for all-zero input (whose     *)
(* resolved domain is min 0, max 1.0).                                      *)
C17_DegenerateBlank ==
    (Charted /\ height >= 1 /\ (ValueRange = R(0) \/ AllZero)) => AllBlank

C17_Witness ==
    /\ Charted /\ height = 2 /\ entry = "met" /\ Len(buckets) = 2
    /\ ValueRange = R(0) /\ RLt(R(0), buckets[1]) /\ buckets[2] = buckets[1]
    /\ AllBlank

----------------------------------------------------------------------------
PositiveBuckets == {buckets[i] : i \in {j \in DOMAIN buckets : RLt(R(0), buckets[j])}}

\* the smallest positive bucket value; None when no bucket is positive
Least(S) == IF S = {} THEN None ELSE CHOOSE v \in S : \A u \in S : RLe(v, u)

\* the dots the code computes for bucket i (lines 200-204), unclamped
CodeDots(i) == DotsFilled(buckets[i], min_val, max_val, height * 4)

(* C18 as claimed: for every input the dots computed for every bucket lie   *)
(* in [0, height*4]; every positive bucket v has min <= v <= max; a bucket  *)
(* equal to max gets exactly height*4 dots; on the positional path a bucket *)
(* equal to the smallest positive bucket gets 0 dots.                       *)
(* Already for height >= 1 this fails: with max = min the bucket equal to   *)
(* max gets no dots.                                                        *)
C18_DotsAsClaimed ==
    (Charted /\ height >= 1) =>
        \A pos \in {PositiveBuckets} : \A least \in {Least(pos)} :
        \A i \in DOMAIN buckets : \A d \in {CodeDots(i)} :
            /\ d \in 0..(height * 4)
            /\ RLt(R(0), buckets[i]) => (RLe(min_val, buckets[i]) /\ RLe(buckets[i], max_val))
            /\ buckets[i] = max_val => d = height * 4
            /\ (entry = "met" /\ buckets[i] = least) => d = 0

(* C18, amended: for height >= 0 the dots computed for every bucket lie in  *)
(* [0, height*4] with no clamp (for height >= 1 they are the dots drawn);   *)
(* every positive bucket v has min <= v <= max; a bucket equal to max gets  *)
(* exactly height*4 dots provided max - min > 0 (none when max = min); on   *)
(* the positional path the smallest positive bucket gets 0 dots.            *)
C18_DotsInRange ==
    (Charted /\ height >= 0) =>
        \A pos \in {PositiveBuckets} : \A least \in {Least(pos)} :
        \A i \in DOMAIN buckets : \A d \in {CodeDots(i)} :
            /\ d \in 0..(height * 4)
            /\ height >= 1 => BarSum(Bar(i)) = d
            /\ RLt(R(0), buckets[i]) => (RLe(min_val, buckets[i]) /\ RLe(buckets[i], max_val))
            /\ buckets[i] = max_val =>
                   d = (IF RLt(R(0), ValueRange) THEN height * 4 ELSE 0)
            /\ (entry = "met" /\ buckets[i] = least) => d = 0

C18_Witness ==
    /\ Charted /\ entry = "met" /\ height = 2
    /\ buckets = <<R(1), R(3)>>
    /\ CodeDots(1) = 0 /\ Bar(1) = <<0, 0>>
    /\ CodeDots(2) = 8 /\ Bar(2) = <<4, 4>>

----------------------------------------------------------------------------
(* The dot-matrix cell: dot d (1..8) is bit d - 1 of the mask.              *)

LeftDotOrder == <<7, 3, 2, 1>>
RightDotOrder == <<8, 6, 5, 4>>

DotBits(m) == {d \in 1..8 : Bit(m, d - 1) = 1}
FirstDots(order, k) == {order[j] : j \in 1..k}

Levels == 0..4

\* the tables of lines 133-148 against the dot numbering
TablesCanonical ==
    /\ Len(left_patterns) = 5 /\ Len(right_patterns) = 5
    /\ \A k \in Levels :
        /\ left_patterns[k + 1] \in 0..255
        /\ right_patterns[k + 1] \in 0..255
        /\ DotBits(left_patterns[k + 1]) = FirstDots(LeftDotOrder, k)
        /\ DotBits(right_patterns[k + 1]) = FirstDots(RightDotOrder, k)
        /\ k >= 1 => /\ DotBits(left_patterns[k]) \subseteq DotBits(left_patterns[k + 1])
                     /\ DotBits(right_patterns[k]) \subseteq DotBits(right_patterns[k + 1])
    /\ \A l \in Levels, r \in Levels :
        /\ DotBits(left_patterns[l + 1]) \cap DotBits(right_patterns[r + 1]) = {}
        /\ BitOr(left_patterns[l + 1], right_patterns[r + 1])
               = left_patterns[l + 1] + right_patterns[r + 1]
        /\ left_patterns[l + 1] + right_patterns[r + 1] \in 0..255

(* C19: level k of the left table lights exactly the first k of the dots    *)
(* 7,3,2,1, level k of the right table the first k of the dots 8,6,5,4;     *)
(* each level contains the previous one; a left and a right mask never      *)
(* share a bit, so left | right = left + right lies in 0..255; and every    *)
(* glyph of a returned chart is U+2800 + left + right for the levels of its *)
(* two sub-columns, within U+2800..U+28FF.                                  *)
C19_PatternTables ==
    /\ TablesCanonical
    /\ (Charted /\ height >= 1) =>
        \A c \in 1..NumCols :
            \A dl \in {SpecDots(ValueOf(2 * c - 1))}, dr \in {SpecDots(ValueOf(2 * c))} :
                \A r \in 0..(height - 1) :
                    /\ GlyphAt(r, c) \in braille_base..(braille_base + 255)
                    /\ GlyphAt(r, c) = braille_base
                                       + left_patterns[SpecLevel(dl, r) + 1]
                                       + right_patterns[SpecLevel(dr, r) + 1]

C19_Witness ==
    /\ Charted /\ height = 2 /\ entry = "heartrate"
    /\ buckets[1] = R(65) /\ buckets[2] = R(80)
    /\ GlyphAt(0, 1) = braille_base + 160
    /\ GlyphAt(1, 1) = braille_base + 70 + 184

----------------------------------------------------------------------------
PositiveIdx == {i \in DOMAIN buckets : RLt(R(0), buckets[i])}
ZeroIdx == {i \in DOMAIN buckets : buckets[i] = R(0)}

(* C20: within one chart with max - min > 0, of two positive buckets        *)
(* v1 <= v2 the first has no more dots than the second, and in every row    *)
(* no greater level; a zero bucket has level 0 in every row.                *)
C20_OrderPreserved ==
    (Charted /\ height >= 1) =>
        /\ \A i \in ZeroIdx : \A r \in 0..(height - 1) : LevelAt(r, i) = 0
        /\ RLt(R(0), ValueRange) =>
            \A bars \in {[i \in PositiveIdx |-> Bar(i)]} :
                \A i \in DOMAIN bars, j \in DOMAIN bars :
                    RLe(buckets[i], buckets[j]) =>
                        /\ BarSum(bars[i]) <= BarSum(bars[j])
                        /\ \A k \in 1..height : bars[i][k] <= bars[j][k]

C20_Witness ==
    /\ Charted /\ height = 3 /\ entry = "heartrate"
    /\ buckets[1] = R(65) /\ buckets[2] = R(80) /\ buckets[5] = R(0)
    /\ Bar(1) = <<0, 0, 4>> /\ Bar(2) = <<1, 4, 4>> /\ Bar(5) = <<0, 0, 0>>

====
